---- MODULE Spec2Model ----
(***************************************************************************)
(* The per-request dispatch pipeline of the ghttp server:                  *)
(* Server.CServeHTTP, Server.handleHTTPRequest, Server.HandleContext and   *)
(* middleware.reset (net/ghttp/ghttp_server_x.go).  One request is         *)
(* followed from the call of handleHTTPRequest to the end of the deferred  *)
(* cleanup.  The Go call stack is the variable stack; handler code is      *)
(* foreign code and is modelled by what it may do to the request.          *)
(***************************************************************************)
EXTENDS Integers, Sequences, FiniteSets, TLC

\* ------------------------------------------------------------------ bounds
MaxCalls == 2           \* calls of Next and HandleContext the chain handlers make
NumHooks == 1           \* hook handlers registered for each hook stage
NumStatusHandlers == 2  \* status handlers registered for each non-200 status

\* --------------------------------------------------------------- constants
StatusOK == 200
StatusNotFound == 404
StatusInternalServerError == 500

CodeNil == "CodeNil"
CodeInternalError == "CodeInternalError"
CodeValidationFailed == "CodeValidationFailed"

NoError == "nil"
NoFile == "nil"
NoPanic == [isError |-> FALSE, code |-> "none"]
NotRead == [SessionCookieOutput |-> FALSE, dirty |-> FALSE, newId |-> FALSE,
            read |-> FALSE]
NoStatusFuncArray == [status |-> 0, n |-> 0]

\* The values a handler may panic with: an error carrying a code, an error
\* without a code, a value that is no error.
PanicValues ==
    { [isError |-> TRUE, code |-> CodeValidationFailed],
      [isError |-> TRUE, code |-> CodeNil],
      [isError |-> FALSE, code |-> CodeNil] }

\* A nil pointer dereference is a runtime error: an error without a code.
RuntimeError == [isError |-> TRUE, code |-> CodeNil]

\* The statuses handler code sets explicitly: none of those the dispatcher
\* writes itself, so a status of this set tells that a handler set it.
HandlerStatuses == {403}

\* What the static file search may return: no match, a file, a directory.
StaticFiles == {NoFile, "file", "dir"}

\* What the router may resolve for a route: the handler chain (each item is
\* the number of middleware bound to that item) and whether one of the
\* handlers is a serve handler.
HandlerLookups ==
    { [handlers |-> <<>>, hasServeHandler |-> FALSE],
      [handlers |-> <<1>>, hasServeHandler |-> FALSE],
      [handlers |-> <<1>>, hasServeHandler |-> TRUE] }

\* What one run of handler code does to the request before it returns,
\* calls or panics.
Effects ==
    [write : BOOLEAN, status : {0} \cup HandlerStatuses, error : BOOLEAN,
     exit : BOOLEAN]

VARIABLES
    config,      \* server configuration, read-only while the request runs
    request,     \* the Request object
    middleware,  \* request.Middleware
    response,    \* request.Response
    session,     \* the session cookie and what lines 138-140 read
    stack,       \* the Go call stack below the deferred function
    pc,          \* "body" or the position in the deferred function
    panic,       \* the panic in flight, NoPanic when there is none
    statusFuncArray, \* the status handlers resolved at line 123
    cleanup,     \* what the deferred function has done so far, in order
    calls,       \* calls of Next and HandleContext the chain handlers made
    obs,         \* what the request was like when the pipeline stages ended
    started      \* how often each stage was started: 0, 1, or 2 for more

vars == <<config, request, middleware, response, session, stack, pc, panic,
          statusFuncArray, cleanup, calls, obs, started>>

\* The stages of one request, in the order of CServeHTTP and
\* handleHTTPRequest.
Stages ==
    <<"static", "lookup", "BeforeServe", "serve", "AfterServe", "BeforeOutput",
      "statusCheck", "statusHandlers", "sessionCookie", "cookieFlush",
      "responseFlush", "AfterOutput", "cleanup">>

StageNames == {Stages[i] : i \in 1..Len(Stages)}

\* The stage st is started once more.
Start(st) == [started EXCEPT ![st] = IF @ < 2 THEN @ + 1 ELSE @]

\* ------------------------------------------------------------- call stack
\* A frame of CServeHTTP, handleHTTPRequest (called by CServeHTTP, or by
\* HandleContext with the cursor it saved) or of a chain handler; act is the
\* call the frame's serve decision made, "" when it made none (for a chain
\* handler: the call it made last, with oldServed the served flag it found
\* when that call was HandleContext); caught tells that the hook or status
\* handler the frame called last panicked.  At "hooks"
\* the frame is inside callHookHandler: hk handlers of the stage have run and
\* ret is where the frame goes on after the stage.
Frame(kind, at) ==
    [kind |-> kind, pc |-> at, ret |-> "", hk |-> 0, oldHI |-> 0, oldMD |-> 0,
     act |-> "", caught |-> FALSE, oldServed |-> FALSE]

Top == stack[Len(stack)]
SetTop(f) == [stack EXCEPT ![Len(stack)] = f]
Pop == SubSeq(stack, 1, Len(stack) - 1)
At(kinds, at) == pc = "body" /\ stack # <<>> /\ Top.kind \in kinds /\ Top.pc = at
Did(at, act) == SetTop([Top EXCEPT !.pc = at, !.act = act])
Goto(at) == SetTop([Top EXCEPT !.pc = at])
Called(act, served) == SetTop([Top EXCEPT !.act = act, !.oldServed = served])
DispatchKinds == {"handleHTTPRequest", "HandleContext"}

\* ------------------------------------------------- collaborators' operations
\* Response.WriteHeader: records the status.
WriteHeader(resp, status) == [resp EXCEPT !.Status = status]

\* Response.WriteStatus as the deferred function uses it: the status is
\* written if none was set, what is buffered stays.
WriteStatus(resp, status) ==
    IF resp.Status = 0 THEN WriteHeader(resp, status) ELSE resp

\* Response.Write: appends to the buffer.  The code reads the buffer's length
\* only to tell an empty buffer from one that holds something, so the buffer is
\* FALSE when empty and TRUE when it holds something.
Write(resp) == [resp EXCEPT !.buffer = TRUE]

\* gerror.Code: the code an error carries, CodeNil when it carries none.
Code(v) == v.code

\* middleware.Next: a no-op when the request is exited or the cursor is at or
\* past the end; otherwise the cursor advances and the handler at the cursor
\* runs (a middleware bound to the item first, then the item itself).
NextRuns(m, req) == ~req.exited /\ m.handlerIndex < Len(req.handlers)

NextCursor(m, req) ==
    IF ~NextRuns(m, req) THEN m
    ELSE IF m.handlerMDIndex < req.handlers[m.handlerIndex + 1]
         THEN [m EXCEPT !.handlerMDIndex = @ + 1]
         ELSE [m EXCEPT !.handlerIndex = @ + 1]

\* Handler code acting on the request and the response.
EffRequest(req, eff) ==
    [req EXCEPT !.error = IF eff.error THEN "err" ELSE @,
                !.exited = @ \/ eff.exit]

EffResponse(resp, eff) ==
    [resp EXCEPT !.Status = IF eff.status # 0 THEN eff.status ELSE @,
                 !.buffer = @ \/ eff.write]

\* What the request is like at this moment.
Seen(at) ==
    [at |-> at, Status |-> response.Status, buffer |-> response.buffer,
     served |-> middleware.served, error |-> request.error,
     StaticFile |-> request.StaticFile]

\* ------------------------------------------------------------------- Init
\* The state when CServeHTTP has built the request (line 63) and registered
\* the deferred function (line 65).
Init ==
    /\ config \in [FileServerEnabled : BOOLEAN]
    /\ request = [error |-> NoError, exited |-> FALSE, StaticFile |-> NoFile,
                  isFileRequest |-> FALSE, handlers |-> <<>>,
                  hasServeHandler |-> FALSE, LeaveTime |-> 0]
    /\ middleware = [handlerIndex |-> 0, handlerMDIndex |-> 0, served |-> FALSE]
    /\ response = [Status |-> 0, buffer |-> FALSE, cookieFlushed |-> 0,
                   flushed |-> 0]
    /\ session = [cookieSet |-> FALSE, read |-> NotRead]
    /\ stack = <<Frame("CServeHTTP", "call")>>
    /\ pc = "body"
    /\ panic = NoPanic
    /\ statusFuncArray = NoStatusFuncArray
    /\ cleanup = <<>>
    /\ calls = 0
    /\ obs = [at |-> "running"]
    /\ started = [st \in StageNames |-> 0]

\* A panic leaves every frame of the body and enters the deferred function.
Raise(v) ==
    /\ panic' = v
    /\ stack' = <<>>
    /\ pc' = "dLeaveTime"
    /\ obs' = Seen("panic")

\* ------------------------------------------------------ handleHTTPRequest
\* CServeHTTP line 106.
CallHandleHTTPRequest ==
    /\ At({"CServeHTTP"}, "call")
    /\ stack' = Append(Goto("statusCheck"), Frame("handleHTTPRequest", "static"))
    /\ UNCHANGED <<config, request, middleware, response, session, pc, panic,
                   statusFuncArray, cleanup, calls, obs, started>>

\* Lines 161-166: the static file search.
SearchStaticFile ==
    /\ At(DispatchKinds, "static")
    /\ IF config.FileServerEnabled
       THEN \E f \in StaticFiles :
               request' = [request EXCEPT
                               !.StaticFile = f,
                               !.isFileRequest = IF f # NoFile THEN TRUE ELSE @]
       ELSE UNCHANGED request
    /\ stack' = Goto("lookup")
    /\ UNCHANGED <<config, middleware, response, session, pc, panic,
                   statusFuncArray, cleanup, calls, obs>>
    /\ started' = Start("static")

\* Lines 169-174: the handler chain lookup and the service type check.
\* A service type check that gives way to a serve handler on any static
\* match, file or directory.
GetHandlers_AnyMatch ==
    /\ At(DispatchKinds, "lookup")
    /\ \E found \in HandlerLookups :
          request' = [request EXCEPT
                          !.handlers = found.handlers,
                          !.hasServeHandler = found.hasServeHandler,
                          !.isFileRequest =
                              IF request.StaticFile # NoFile /\ found.hasServeHandler
                              THEN FALSE ELSE @]
    /\ stack' = Goto("beforeServe")
    /\ UNCHANGED <<config, middleware, response, session, pc, panic,
                   statusFuncArray, cleanup, calls, obs>>
    /\ started' = Start("lookup")

\* Lines 169-174.
GetHandlers ==
    /\ At(DispatchKinds, "lookup")
    /\ \E found \in HandlerLookups :
          request' = [request EXCEPT
                          !.handlers = found.handlers,
                          !.hasServeHandler = found.hasServeHandler,
                          !.isFileRequest =
                              IF request.StaticFile = "dir" /\ found.hasServeHandler
                              THEN FALSE ELSE @]
    /\ stack' = Goto("beforeServe")
    /\ UNCHANGED <<config, middleware, response, session, pc, panic,
                   statusFuncArray, cleanup, calls, obs>>
    /\ started' = Start("lookup")

\* Enter callHookHandler for a stage; cont is where the caller goes on.
EnterHooks(cont) == SetTop([Top EXCEPT !.pc = "hooks", !.ret = cont, !.hk = 0])

\* Line 177: HOOK - BeforeServe.
HookBeforeServe ==
    /\ At(DispatchKinds, "beforeServe")
    /\ stack' = EnterHooks("serve")
    /\ UNCHANGED <<config, request, middleware, response, session, pc, panic,
                   statusFuncArray, cleanup, calls, obs>>
    /\ started' = Start("BeforeServe")

\* A protective wrapper that lets the panic of the handler through.
niceCallFunc_Rethrow(v) == v

\* The protective wrapper around a hook handler or a status handler: what
\* leaves it when the handler panics with v.  The panic is caught locally.
niceCallFunc(v) == NoPanic

\* callHookHandler: the handlers of the stage run in registration order, each
\* in a safe call: a panic of a hook handler ends that handler only. The
\* handlers after one that left the request exited are skipped.
CallHookHandler ==
    /\ At(DispatchKinds \cup {"CServeHTTP"}, "hooks")
    /\ Top.hk < NumHooks
    /\ \E eff \in Effects, v \in PanicValues \cup {NoPanic} :
          /\ request' = EffRequest(request, eff)
          /\ response' = EffResponse(response, eff)
          /\ IF v # NoPanic /\ niceCallFunc(v) # NoPanic
             THEN Raise(niceCallFunc(v))
             ELSE /\ stack' = SetTop([Top EXCEPT
                                !.hk = IF request'.exited THEN NumHooks
                                                          ELSE @ + 1,
                                !.caught = (v # NoPanic)])
                  /\ UNCHANGED <<pc, panic, obs>>
    /\ UNCHANGED <<config, middleware, session, statusFuncArray, cleanup, calls,
                   started>>

HooksDone ==
    /\ At(DispatchKinds \cup {"CServeHTTP"}, "hooks")
    /\ Top.hk >= NumHooks
    /\ stack' = SetTop([Top EXCEPT !.pc = Top.ret, !.ret = "", !.hk = 0,
                                   !.caught = FALSE])
    /\ UNCHANGED <<config, request, middleware, response, session, pc, panic,
                   statusFuncArray, cleanup, calls, obs, started>>

\* serveFile: the file or directory content goes to the response; a nil
\* match is dereferenced.
ServeFile(cont) ==
    \/ /\ request.StaticFile # NoFile
       /\ \E content \in BOOLEAN :
             response' = [response EXCEPT !.buffer = @ \/ content]
       /\ stack' = Did(cont, "serveFile")
       /\ UNCHANGED <<pc, panic, obs>>
    \/ /\ request.StaticFile = NoFile
       /\ Raise(RuntimeError)
       /\ UNCHANGED response

\* A serve decision that looks at the handler chain before the file request.
ServeRule_ChainFirst(req) ==
    IF req.exited THEN "exited"
    ELSE IF Len(req.handlers) > 0 THEN "chain"
    ELSE IF req.isFileRequest THEN "file"
    ELSE IF req.StaticFile = "dir" THEN "dir"
    ELSE "none"

\* Lines 180-195: which branch of the core serving the request takes.
ServeRule(req) ==
    IF req.exited THEN "exited"
    ELSE IF req.isFileRequest THEN "file"
    ELSE IF Len(req.handlers) > 0 THEN "chain"
    ELSE IF req.StaticFile = "dir" THEN "dir"
    ELSE "none"

\* Lines 180-201: the core serving decision.
CoreServe ==
    /\ At(DispatchKinds, "serve")
    /\ LET rule == ServeRule(request)
       IN  IF rule = "exited"
           THEN /\ stack' = Did("afterServe", "")
                /\ UNCHANGED <<middleware, response, pc, panic, obs>>
           ELSE IF rule = "file"
           THEN /\ ServeFile("afterServe")
                /\ UNCHANGED middleware
           ELSE IF rule = "chain"
           THEN /\ middleware' = NextCursor(middleware, request)
                /\ stack' = IF NextRuns(middleware, request)
                            THEN Append(Did("afterServe", "Next"),
                                        Frame("handler", "run"))
                            ELSE Did("afterServe", "Next")
                /\ UNCHANGED <<response, pc, panic, obs>>
           ELSE IF rule = "dir"
           THEN /\ ServeFile("afterServe")
                /\ UNCHANGED middleware
           ELSE /\ \E header \in BOOLEAN :
                      IF ~header /\ response.Status = 0 /\ ~response.buffer
                      THEN /\ response' = WriteHeader(response, StatusNotFound)
                           /\ stack' = Did("afterServe", "WriteHeader")
                      ELSE /\ response' = response
                           /\ stack' = Did("afterServe", "")
                /\ UNCHANGED <<middleware, pc, panic, obs>>
    /\ UNCHANGED <<config, request, session, statusFuncArray, cleanup, calls>>
    /\ started' = IF ~request.exited THEN Start("serve") ELSE started

\* Lines 204-206: HOOK - AfterServe.
HookAfterServe ==
    /\ At(DispatchKinds, "afterServe")
    /\ stack' = IF ~request.exited THEN EnterHooks("beforeOutput")
                                   ELSE Goto("beforeOutput")
    /\ UNCHANGED <<config, request, middleware, response, session, pc, panic,
                   statusFuncArray, cleanup, calls, obs>>
    /\ started' = IF ~request.exited THEN Start("AfterServe") ELSE started

\* Lines 209-211: HOOK - BeforeOutput.
HookBeforeOutput ==
    /\ At(DispatchKinds, "beforeOutput")
    /\ stack' = IF ~request.exited THEN EnterHooks("return")
                                   ELSE Goto("return")
    /\ UNCHANGED <<config, request, middleware, response, session, pc, panic,
                   statusFuncArray, cleanup, calls, obs>>
    /\ started' = IF ~request.exited THEN Start("BeforeOutput") ELSE started

\* Line 212: handleHTTPRequest returns to CServeHTTP.
ReturnHandleHTTPRequest ==
    /\ At({"handleHTTPRequest"}, "return")
    /\ stack' = Pop
    /\ UNCHANGED <<config, request, middleware, response, session, pc, panic,
                   statusFuncArray, cleanup, calls, obs, started>>

\* ---------------------------------------------------------- HandleContext
\* A reset that puts the cursor back and leaves the served flag alone.
reset_KeepServed(m) == [m EXCEPT !.handlerIndex = 0, !.handlerMDIndex = 0]

\* middleware.reset, lines 233-237.
reset(m) == [m EXCEPT !.served = FALSE, !.handlerIndex = 0, !.handlerMDIndex = 0]

\* Lines 216-221: a chain handler re-enters the request.
HandleContext ==
    /\ At({"handler"}, "run")
    /\ calls < MaxCalls
    /\ calls' = calls + 1
    /\ middleware' = reset(middleware)
    /\ stack' = Append(Called("HandleContext", middleware.served),
                       [Frame("HandleContext", "static") EXCEPT
                            !.oldHI = middleware.handlerIndex,
                            !.oldMD = middleware.handlerMDIndex])
    /\ UNCHANGED <<config, request, response, session, pc, panic,
                   statusFuncArray, cleanup, obs, started>>

\* Lines 223-226: the cursor is put back and HandleContext returns.
HandleContextReturn ==
    /\ At({"HandleContext"}, "return")
    /\ middleware' = [middleware EXCEPT !.handlerIndex = Top.oldHI,
                                        !.handlerMDIndex = Top.oldMD]
    /\ stack' = Pop
    /\ UNCHANGED <<config, request, response, session, pc, panic,
                   statusFuncArray, cleanup, calls, obs, started>>

\* ---------------------------------------------------------- chain handlers
\* A handler of the middleware chain acts on the request; what it writes
\* marks the chain served.
HandlerEffects ==
    /\ At({"handler"}, "run")
    /\ \E eff \in Effects :
          /\ request' = EffRequest(request, eff)
          /\ response' = EffResponse(response, eff)
          /\ middleware' = [middleware EXCEPT !.served = @ \/ eff.write]
    /\ UNCHANGED <<config, session, stack, pc, panic, statusFuncArray, cleanup,
                   calls, obs, started>>

\* A handler of the chain calls request.Middleware.Next().
HandlerNext ==
    /\ At({"handler"}, "run")
    /\ calls < MaxCalls
    /\ calls' = calls + 1
    /\ middleware' = NextCursor(middleware, request)
    /\ stack' = IF NextRuns(middleware, request)
                THEN Append(Called("Next", FALSE), Frame("handler", "run"))
                ELSE Called("Next", FALSE)
    /\ UNCHANGED <<config, request, response, session, pc, panic,
                   statusFuncArray, cleanup, obs, started>>

HandlerReturn ==
    /\ At({"handler"}, "run")
    /\ stack' = Pop
    /\ UNCHANGED <<config, request, middleware, response, session, pc, panic,
                   statusFuncArray, cleanup, calls, obs, started>>

\* A handler of the chain panics: nothing between it and the deferred
\* function of CServeHTTP recovers.
HandlerPanic ==
    /\ At({"handler"}, "run")
    /\ \E v \in PanicValues : Raise(v)
    /\ UNCHANGED <<config, request, middleware, response, session,
                   statusFuncArray, cleanup, calls, started>>

\* ------------------------------------------------- CServeHTTP after line 106
\* Status checking that takes no account of a static file match.
StatusChecking_NoStatic(resp, req, m) ==
    IF resp.Status # 0 THEN resp
    ELSE IF m.served \/ resp.buffer
    THEN WriteHeader(resp, StatusOK)
    ELSE IF req.error # NoError
    THEN WriteHeader(IF ~resp.buffer THEN Write(resp) ELSE resp,
                     StatusInternalServerError)
    ELSE WriteHeader(resp, StatusNotFound)

\* Status checking that resolves the status also when one is set.
StatusChecking_Overwrite(resp, req, m) ==
    IF req.StaticFile # NoFile \/ m.served \/ resp.buffer
    THEN WriteHeader(resp, StatusOK)
    ELSE IF req.error # NoError
    THEN WriteHeader(IF ~resp.buffer THEN Write(resp) ELSE resp,
                     StatusInternalServerError)
    ELSE WriteHeader(resp, StatusNotFound)

\* Status checking that looks at the recorded error before the output.
StatusChecking_ErrorFirst(resp, req, m) ==
    IF resp.Status # 0 THEN resp
    ELSE IF req.error # NoError
    THEN WriteHeader(IF ~resp.buffer THEN Write(resp) ELSE resp,
                     StatusInternalServerError)
    ELSE IF req.StaticFile # NoFile \/ m.served \/ resp.buffer
    THEN WriteHeader(resp, StatusOK)
    ELSE WriteHeader(resp, StatusNotFound)

\* Lines 109-120: HTTP status checking.
StatusChecking(resp, req, m) ==
    IF resp.Status # 0 THEN resp
    ELSE IF req.StaticFile # NoFile \/ m.served \/ resp.buffer
    THEN WriteHeader(resp, StatusOK)
    ELSE IF req.error # NoError
    THEN WriteHeader(IF ~resp.buffer THEN Write(resp) ELSE resp,
                     StatusInternalServerError)
    ELSE WriteHeader(resp, StatusNotFound)

StatusCheck ==
    /\ At({"CServeHTTP"}, "statusCheck")
    /\ response' = StatusChecking(response, request, middleware)
    /\ obs' = Seen("check")
    /\ stack' = Goto("statusHandler")
    /\ UNCHANGED <<config, request, middleware, session, pc, panic,
                   statusFuncArray, cleanup, calls>>
    /\ started' = Start("statusCheck")

\* Lines 122-123: the status handlers of the status are resolved.
NeedsStatusHandler(resp) == resp.Status # StatusOK

GetStatusHandler ==
    /\ At({"CServeHTTP"}, "statusHandler")
    /\ IF NeedsStatusHandler(response)
       THEN /\ statusFuncArray' = [status |-> response.Status,
                                   n |-> NumStatusHandlers]
            /\ stack' = SetTop([Top EXCEPT !.pc = "statusLoop", !.hk = 0])
       ELSE /\ stack' = Goto("sessionCookie")
            /\ UNCHANGED statusFuncArray
    /\ UNCHANGED <<config, request, middleware, response, session, pc, panic,
                   cleanup, calls, obs>>
    /\ started' = IF NeedsStatusHandler(response)
                  THEN Start("statusHandlers") ELSE started

\* A loop that is never left early.
BreakStatusLoop_Never(req) == FALSE

\* Lines 129-131: the loop is left once the request is exited.
BreakStatusLoop(req) == req.exited

\* Lines 124-132: one round of the loop: the handler runs in a safe call,
\* then the exited flag is looked at.  At "statusLoop" with hk below the
\* number of handlers the program is at line 126, calling handler hk + 1.
CallStatusHandler ==
    /\ At({"CServeHTTP"}, "statusLoop")
    /\ Top.hk < statusFuncArray.n
    /\ \E eff \in Effects, v \in PanicValues \cup {NoPanic} :
          /\ request' = EffRequest(request, eff)
          /\ response' = EffResponse(response, eff)
          /\ IF v # NoPanic /\ niceCallFunc(v) # NoPanic
             THEN /\ Raise(niceCallFunc(v))
                  /\ statusFuncArray' = NoStatusFuncArray
             ELSE /\ IF BreakStatusLoop(request')
                     THEN /\ stack' = SetTop([Top EXCEPT !.pc = "sessionCookie",
                                                         !.hk = 0,
                                                         !.caught = FALSE])
                          /\ statusFuncArray' = NoStatusFuncArray
                     ELSE /\ stack' = SetTop([Top EXCEPT !.hk = @ + 1,
                                                         !.caught = (v # NoPanic)])
                          /\ UNCHANGED statusFuncArray
                  /\ UNCHANGED <<pc, panic, obs>>
    /\ UNCHANGED <<config, middleware, session, cleanup, calls, started>>

\* The range is exhausted: statusFuncArray goes out of scope.
StatusLoopDone ==
    /\ At({"CServeHTTP"}, "statusLoop")
    /\ Top.hk >= statusFuncArray.n
    /\ stack' = SetTop([Top EXCEPT !.pc = "sessionCookie", !.hk = 0,
                                   !.caught = FALSE])
    /\ statusFuncArray' = NoStatusFuncArray
    /\ UNCHANGED <<config, request, middleware, response, session, pc, panic,
                   cleanup, calls, obs, started>>

\* Lines 138-142: the session id goes to the cookie.  What the condition
\* reads (the configuration, the session's dirty flag, whether the session id
\* differs from the inbound one) is drawn here, where it is read.
\* A condition that does not compare the session id with the inbound one.
SetsSessionCookie_AnyId(in) == in.SessionCookieOutput /\ in.dirty

SetsSessionCookie(in) == in.SessionCookieOutput /\ in.dirty /\ in.newId

\* A session cookie step after which the cookies are not flushed.
SessionCookie_NoCookieFlush ==
    /\ At({"CServeHTTP"}, "sessionCookie")
    /\ \E in \in [SessionCookieOutput : BOOLEAN, dirty : BOOLEAN,
                  newId : BOOLEAN, read : {TRUE}] :
          session' = [cookieSet |-> SetsSessionCookie(in), read |-> in]
    /\ stack' = Goto("responseFlush")
    /\ UNCHANGED <<config, request, middleware, response, pc, panic,
                   statusFuncArray, cleanup, calls, obs>>
    /\ started' = Start("sessionCookie")

SessionCookie ==
    /\ At({"CServeHTTP"}, "sessionCookie")
    /\ \E in \in [SessionCookieOutput : BOOLEAN, dirty : BOOLEAN,
                  newId : BOOLEAN, read : {TRUE}] :
          session' = [cookieSet |-> SetsSessionCookie(in), read |-> in]
    /\ stack' = Goto("cookieFlush")
    /\ UNCHANGED <<config, request, middleware, response, pc, panic,
                   statusFuncArray, cleanup, calls, obs>>
    /\ started' = Start("sessionCookie")

\* Line 144: request.Cookie.Flush().
CookieFlush ==
    /\ At({"CServeHTTP"}, "cookieFlush")
    /\ response' = [response EXCEPT !.cookieFlushed = @ + 1]
    /\ session' = [session EXCEPT !.read = NotRead]
    /\ stack' = Goto("responseFlush")
    /\ UNCHANGED <<config, request, middleware, pc, panic, statusFuncArray,
                   cleanup, calls, obs>>
    /\ started' = Start("cookieFlush")

\* Line 146: the buffer goes to the client.
ResponseFlush ==
    /\ At({"CServeHTTP"}, "responseFlush")
    /\ response' = [response EXCEPT !.flushed = @ + 1, !.buffer = FALSE]
    /\ stack' = Goto("afterOutput")
    /\ UNCHANGED <<config, request, middleware, session, pc, panic,
                   statusFuncArray, cleanup, calls, obs>>
    /\ started' = Start("responseFlush")

\* Lines 148-150: HOOK - AfterOutput.
HookAfterOutput ==
    /\ At({"CServeHTTP"}, "afterOutput")
    /\ stack' = IF ~request.exited THEN EnterHooks("return")
                                   ELSE Goto("return")
    /\ UNCHANGED <<config, request, middleware, response, session, pc, panic,
                   statusFuncArray, cleanup, calls, obs>>
    /\ started' = IF ~request.exited THEN Start("AfterOutput") ELSE started

\* Line 151: the body of CServeHTTP returns, the deferred function runs.
ReturnCServeHTTP ==
    /\ At({"CServeHTTP"}, "return")
    /\ stack' = <<>>
    /\ pc' = "dLeaveTime"
    /\ UNCHANGED <<config, request, middleware, response, session, panic,
                   statusFuncArray, cleanup, calls, obs, started>>

\* -------------------------------------------- the deferred function, 65-104
\* Line 66.
DeferLeaveTime ==
    /\ pc = "dLeaveTime"
    /\ request' = [request EXCEPT !.LeaveTime = @ + 1]
    /\ cleanup' = Append(cleanup, [ev |-> "leaveTime"])
    /\ pc' = "dErrorLog"
    /\ UNCHANGED <<config, middleware, response, session, stack, panic,
                   statusFuncArray, calls, obs>>
    /\ started' = Start("cleanup")

\* Lines 68-71: recover() is called only when no error is recorded.
Recovers(req, p) == req.error = NoError /\ p # NoPanic

\* A recovery that overwrites the status a handler had set.
RecoverStatus_Overwrite(resp) == WriteHeader(resp, StatusInternalServerError)

\* Line 72: the status written when a panic is recovered.
RecoverStatus(resp) == WriteStatus(resp, StatusInternalServerError)

\* A recovery that wraps every panic value as an internal error.
RecoveredError_AlwaysWrap(exception) ==
    [isError |-> TRUE, code |-> CodeInternalError]

\* Lines 73-81: the error handed to handleErrorLog for a recovered panic.
RecoveredError(exception) ==
    IF exception.isError
    THEN IF Code(exception) # CodeNil
         THEN exception
         ELSE [isError |-> TRUE, code |-> CodeInternalError]
    ELSE [isError |-> TRUE, code |-> CodeInternalError]

\* Lines 68-83: error log handling.
DeferErrorLog ==
    /\ pc = "dErrorLog"
    /\ IF request.error # NoError
       THEN /\ cleanup' = Append(cleanup, [ev |-> "errorLog", src |-> "request"])
            /\ UNCHANGED <<response, panic>>
       ELSE IF Recovers(request, panic)
       THEN /\ response' = RecoverStatus(response)
            /\ cleanup' = Append(cleanup,
                                 [ev |-> "errorLog", src |-> "panic",
                                  exception |-> panic,
                                  code |-> Code(RecoveredError(panic))])
            /\ panic' = NoPanic
       ELSE UNCHANGED <<response, panic, cleanup>>
    /\ pc' = "dAccessLog"
    /\ UNCHANGED <<config, request, middleware, session, stack,
                   statusFuncArray, calls, obs, started>>

\* Line 85: access log handling.
DeferAccessLog ==
    /\ pc = "dAccessLog"
    /\ cleanup' = Append(cleanup, [ev |-> "accessLog"])
    /\ pc' = "dSessionClose"
    /\ UNCHANGED <<config, request, middleware, response, session, stack,
                   panic, statusFuncArray, calls, obs, started>>

\* The deferred function is over: a panic that was not recovered goes on to
\* the caller of CServeHTTP.
Leave == IF panic # NoPanic THEN "panicked" ELSE "done"

\* A deferred function that returns at the first close that fails.
AfterClose_Return(at, err) == IF err THEN Leave ELSE at

\* Where the deferred function goes on after a close that returned err: the
\* error is logged, nothing else.
AfterClose(at, err) == at

\* Lines 88-90: the session is closed.
DeferSessionClose ==
    /\ pc = "dSessionClose"
    /\ \E err \in BOOLEAN :
          /\ cleanup' = Append(cleanup, [ev |-> "sessionClose"])
          /\ pc' = AfterClose("dBodyClose", err)
    /\ UNCHANGED <<config, request, middleware, response, session, stack,
                   panic, statusFuncArray, calls, obs, started>>

\* A request body that is closed only when no panic is in flight.
DeferBodyClose_NotOnPanic ==
    /\ pc = "dBodyClose"
    /\ \E err \in BOOLEAN :
          /\ cleanup' = IF panic # NoPanic THEN cleanup
                        ELSE Append(cleanup, [ev |-> "bodyClose"])
          /\ pc' = AfterClose("dRespBodyClose", err)
    /\ UNCHANGED <<config, request, middleware, response, session, stack,
                   panic, statusFuncArray, calls, obs, started>>

\* Lines 94-97: the request body is closed.
DeferBodyClose ==
    /\ pc = "dBodyClose"
    /\ \E err \in BOOLEAN :
          /\ cleanup' = Append(cleanup, [ev |-> "bodyClose"])
          /\ pc' = AfterClose("dRespBodyClose", err)
    /\ UNCHANGED <<config, request, middleware, response, session, stack,
                   panic, statusFuncArray, calls, obs, started>>

\* Lines 98-103: the response body of the request is closed when the request
\* has one (drawn here, where the code reads it).
DeferRespBodyClose ==
    /\ pc = "dRespBodyClose"
    /\ \E respBody \in BOOLEAN :
          IF respBody
          THEN \E err \in BOOLEAN :
                  /\ cleanup' = Append(cleanup, [ev |-> "respBodyClose"])
                  /\ pc' = AfterClose(Leave, err)
          ELSE /\ cleanup' = Append(cleanup, [ev |-> "respBodyNil"])
               /\ pc' = Leave
    /\ UNCHANGED <<config, request, middleware, response, session, stack,
                   panic, statusFuncArray, calls, obs, started>>

\* ------------------------------------------------------------------- Next
Next ==
    \/ CallHandleHTTPRequest
    \/ SearchStaticFile
    \/ GetHandlers
    \/ HookBeforeServe
    \/ CallHookHandler
    \/ HooksDone
    \/ CoreServe
    \/ HookAfterServe
    \/ HookBeforeOutput
    \/ ReturnHandleHTTPRequest
    \/ HandleContext
    \/ HandleContextReturn
    \/ HandlerEffects
    \/ HandlerNext
    \/ HandlerReturn
    \/ HandlerPanic
    \/ StatusCheck
    \/ GetStatusHandler
    \/ CallStatusHandler
    \/ StatusLoopDone
    \/ SessionCookie
    \/ CookieFlush
    \/ ResponseFlush
    \/ HookAfterOutput
    \/ ReturnCServeHTTP
    \/ DeferLeaveTime
    \/ DeferErrorLog
    \/ DeferAccessLog
    \/ DeferSessionClose
    \/ DeferBodyClose
    \/ DeferRespBodyClose

Spec == Init /\ [][Next]_vars

\* ================================================================= claims
Finished == pc \in {"done", "panicked"}
Count(ev) == Cardinality({i \in 1..Len(cleanup) : cleanup[i].ev = ev})
Has(ev) == Count(ev) > 0
PanicRecovered ==
    \E i \in 1..Len(cleanup) :
        cleanup[i].ev = "errorLog" /\ cleanup[i].src = "panic"
HandlerSetStatus == response.Status \in HandlerStatuses

\* C1: on every exit path (return, recorded error, panic, with or without
\* HandleContext replays) the inbound body is closed exactly once, the
\* outbound body (when the request has one) exactly once, and the session is
\* closed exactly once.
C1_ClosedExactlyOnce ==
    /\ Count("sessionClose") <= 1
    /\ Count("bodyClose") <= 1
    /\ Count("respBodyClose") <= 1
    /\ Finished =>
          /\ Count("sessionClose") = 1
          /\ Count("bodyClose") = 1
          /\ Count("respBodyClose") = (IF Has("respBodyNil") THEN 0 ELSE 1)

\* C1's case: a panic that goes on to the caller, everything closed.
C1_Witness ==
    /\ pc = "panicked"
    /\ calls = MaxCalls
    /\ Count("sessionClose") = 1
    /\ Count("bodyClose") = 1
    /\ Count("respBodyClose") = 1

\* The place of a cleanup step in the order of the deferred function.
Rank(ev) ==
    CASE ev = "leaveTime" -> 1
      [] ev = "errorLog" -> 2
      [] ev = "accessLog" -> 3
      [] ev = "sessionClose" -> 4
      [] ev = "bodyClose" -> 5
      [] ev \in {"respBodyClose", "respBodyNil"} -> 6

\* C2: the deferred cleanup records LeaveTime first and once, then logs the
\* error (the recorded error if any, else the recovered panic if any), then
\* writes the access log once, then closes the session, the inbound body and
\* the outbound body, in this order; a failing close stops none of the
\* later steps.
C2_CleanupOrder ==
    /\ \A i, j \in 1..Len(cleanup) :
          i < j => Rank(cleanup[i].ev) < Rank(cleanup[j].ev)
    /\ \A i \in 1..Len(cleanup) :
          \A r \in {1, 3, 4, 5} :
             r < Rank(cleanup[i].ev) =>
                \E j \in 1..(i - 1) : Rank(cleanup[j].ev) = r
    /\ request.LeaveTime = Count("leaveTime")
    /\ Has("accessLog") =>
          /\ Has("errorLog") <=> (request.error # NoError \/ obs.at = "panic")
          /\ \A i \in 1..Len(cleanup) :
                cleanup[i].ev = "errorLog" =>
                   (cleanup[i].src = "request" <=> request.error # NoError)
    /\ Finished => \A r \in {1, 3, 4, 5, 6} :
                      \E i \in 1..Len(cleanup) : Rank(cleanup[i].ev) = r

\* C2's case: the cleanup after a recovered panic has run to its end.
C2_Witness ==
    /\ pc = "done"
    /\ PanicRecovered
    /\ Len(cleanup) = 6
    /\ cleanup[6].ev = "respBodyClose"

\* C3 as claimed: a request on which nothing was written and no error was
\* recorded ends with status 404, also with a static file match.
C3_Original ==
    (/\ obs.at = "check"
     /\ ~obs.buffer
     /\ ~obs.served
     /\ obs.error = NoError
     /\ ~HandlerSetStatus)
    => response.Status = StatusNotFound

\* C3, amended: a request that reaches the status checking with nothing
\* written, the chain not served, no error recorded and no static file match
\* ends with status 404 unless a handler sets a status; with a static file
\* match and no status set it ends with 200, even if nothing was written.
C3_NotFoundWithoutStatic ==
    /\ (/\ obs.at = "check"
        /\ ~obs.buffer
        /\ ~obs.served
        /\ obs.error = NoError
        /\ obs.StaticFile = NoFile
        /\ ~HandlerSetStatus)
       => response.Status = StatusNotFound
    /\ (/\ obs.at = "check"
        /\ obs.Status = 0
        /\ obs.StaticFile # NoFile
        /\ ~HandlerSetStatus)
       => response.Status = StatusOK

\* C3's case: a BeforeServe hook exited the request, nothing was served.
C3_Witness ==
    /\ pc = "done"
    /\ request.exited
    /\ obs.at = "check"
    /\ ~obs.buffer
    /\ obs.error = NoError
    /\ obs.StaticFile = NoFile
    /\ obs.Status = 0
    /\ response.Status = StatusNotFound

\* C4 as claimed: when a handler wrote output or the chain is served and no
\* status was set, the request ends with status 200 however it terminates,
\* a panic after the output included.
C4_Original ==
    (/\ Finished
     /\ obs.at \in {"check", "panic"}
     /\ obs.Status = 0
     /\ obs.buffer \/ obs.served
     /\ ~HandlerSetStatus)
    => response.Status = StatusOK

\* C4, amended: when the status checking is reached (no panic left the
\* pipeline stages) with no status set and with output in the buffer or the
\* chain served, the request ends with status 200 unless a handler sets a
\* status afterwards.
C4_OkWithOutput ==
    (/\ obs.at = "check"
     /\ obs.Status = 0
     /\ obs.buffer \/ obs.served
     /\ ~HandlerSetStatus)
    => response.Status = StatusOK

\* C4's case: the chain was served, no status was set, the request is over.
C4_Witness ==
    /\ pc = "done"
    /\ obs.at = "check"
    /\ obs.Status = 0
    /\ obs.served
    /\ obs.StaticFile = NoFile
    /\ response.Status = StatusOK

\* C5: the error logged for a recovered panic carries the panic's code when
\* the panic value is an error with a code, the internal error code when it
\* is an error without a code or no error; one error log call per recovered
\* panic.
C5_LoggedCode ==
    /\ Count("errorLog") <= 1
    /\ \A i \in 1..Len(cleanup) :
          (cleanup[i].ev = "errorLog" /\ cleanup[i].src = "panic") =>
             LET x == cleanup[i].exception
             IN  /\ x \in PanicValues
                 /\ (x.isError /\ x.code # CodeNil) => cleanup[i].code = x.code
                 /\ ~(x.isError /\ x.code # CodeNil) =>
                       cleanup[i].code = CodeInternalError
    /\ (Has("accessLog") /\ obs.at = "panic" /\ request.error = NoError)
          => PanicRecovered

\* C5's case: a panic with a coded error was recovered and logged.
C5_Witness ==
    \E i \in 1..Len(cleanup) :
        /\ cleanup[i].ev = "errorLog"
        /\ cleanup[i].src = "panic"
        /\ cleanup[i].exception.code = CodeValidationFailed
        /\ cleanup[i].code = CodeValidationFailed

C7_PanicNeverPropagates == pc # "panicked"

\* C8 as claimed: callHookHandler is entered for a stage only when the
\* request is not exited, in the first dispatch and in every replay.
C8_HooksOnlyWhenNotExited ==
    (At(DispatchKinds \cup {"CServeHTTP"}, "hooks") /\ Top.hk = 0)
       => ~request.exited

\* C9 as claimed: when the request is exited as the status handler step is
\* reached with a status other than 200, no status handler is called.
C9_NoStatusHandlerWhenExited ==
    (/\ At({"CServeHTTP"}, "statusLoop")
     /\ Top.hk = 0
     /\ Top.hk < statusFuncArray.n)
    => ~request.exited

\* C10: a status handler is called only for a resolved status other than
\* 200, the handlers are those of the status the step found, they are called
\* in registration order, and none is called after one that left the request
\* exited.
C10_StatusHandlers ==
    (At({"CServeHTTP"}, "statusLoop") /\ Top.hk < statusFuncArray.n) =>
       /\ statusFuncArray.status # StatusOK
       /\ Top.hk = 0 => statusFuncArray.status = response.Status
       /\ Top.hk > 0 => ~request.exited
       /\ obs.at = "check"
       /\ obs.Status # 0 => statusFuncArray.status = obs.Status

\* C10's case: the first handler has run and the second is being called.
C10_Witness ==
    /\ At({"CServeHTTP"}, "statusLoop")
    /\ Top.hk = 1
    /\ Top.hk < statusFuncArray.n
    /\ statusFuncArray.status = StatusNotFound

\* C11: on a request that reaches the output step the session id is written
\* to the cookie if and only if SessionCookieOutput is enabled, the session
\* is dirty and the session id differs from the inbound one; on a request
\* that does not get there the dispatcher sets no session cookie.
C11_SessionCookieIff ==
    /\ session.read.read =>
          (session.cookieSet <=>
              (/\ session.read.SessionCookieOutput
               /\ session.read.dirty
               /\ session.read.newId))
    /\ session.cookieSet =>
          (obs.at = "check" /\ ~At({"CServeHTTP"}, "sessionCookie"))

\* C11's case: the three conditions held and the cookie was set.
C11_Witness ==
    /\ At({"CServeHTTP"}, "cookieFlush")
    /\ session.read.read
    /\ session.read.SessionCookieOutput
    /\ session.read.dirty
    /\ session.read.newId
    /\ session.cookieSet

\* The place of a stage in the sequence.
StageRank(st) == CHOOSE i \in 1..Len(Stages) : Stages[i] = st

\* A HandleContext replay is in progress or is over.
Replayed ==
    \/ \E i \in 1..Len(stack) : stack[i].kind = "HandleContext"
    \/ started["static"] >= 2

\* The stages no request skips unless a panic ends its pipeline.
AlwaysRun ==
    {"static", "lookup", "BeforeServe", "statusCheck", "sessionCookie",
     "cookieFlush", "responseFlush"}

\* C12 as claimed: the stages start in the strict sequence and none starts
\* more than once in a request, also when a handler calls HandleContext.
C12_Original ==
    [][\A st \in StageNames :
          started'[st] # started[st] =>
             \A t \in StageNames :
                StageRank(t) >= StageRank(st) => started[t] = 0]_vars

\* C12, amended: as long as no handler has called HandleContext, and from
\* the default status resolution on in every request, a stage starts only
\* when neither it nor a later stage has started, and (the cleanup aside)
\* after every earlier stage that is never skipped; a HandleContext replay
\* starts the stages of handleHTTPRequest once more, inside the serve action
\* of the dispatch that called it and before the default status resolution,
\* and the calling dispatch goes on with AfterServe and BeforeOutput after it.
C12_StagesInOrder ==
    [][\A st \in StageNames :
          started'[st] # started[st] =>
             /\ (StageRank(st) > 6 \/ ~Replayed) =>
                   \A t \in StageNames :
                      StageRank(t) >= StageRank(st) => started[t] = 0
             /\ (StageRank(st) <= 6 /\ Replayed) =>
                   /\ started["serve"] >= 1
                   /\ StageRank(st) <= 4 => started[st] >= 1
                   /\ \A t \in StageNames :
                         StageRank(t) > 6 => started[t] = 0
             /\ st # "cleanup" =>
                   \A t \in AlwaysRun :
                      StageRank(t) < StageRank(st) => started[t] >= 1
             /\ st # "cleanup" => pc = "body"]_vars

\* C12's case: a handler replayed the request and the request ran to its end.
C12_Witness ==
    /\ pc = "done"
    /\ started["static"] = 2
    /\ started["serve"] = 2
    /\ started["statusCheck"] = 1
    /\ started["AfterOutput"] = 1
    /\ started["cleanup"] = 1

\* C13 as claimed: whenever a HandleContext call is left, by its return or
\* by a panic of the replay, the middleware cursor is what it was when
\* HandleContext was called.
C13_CursorRestored ==
    [][\A i \in 1..Len(stack) :
          (stack[i].kind = "HandleContext" /\ Len(stack') < i) =>
             /\ middleware'.handlerIndex = stack[i].oldHI
             /\ middleware'.handlerMDIndex = stack[i].oldMD]_vars

\* C14 as claimed: once the first static lookup and the first handler chain
\* lookup of a request are done, no step changes request.StaticFile or
\* request.handlers, a HandleContext replay included.
C14_AssignedOnce ==
    [][started["lookup"] >= 1 =>
          /\ request'.StaticFile = request.StaticFile
          /\ request'.handlers = request.handlers]_vars

\* The call the serve decision of the running step made: that of the frame
\* that decided, or a panic that left every frame.
ActTaken == IF stack' = <<>> THEN "panic" ELSE stack'[Len(stack)].act

\* C15: a dispatch that is not exited after BeforeServe makes one serve call,
\* that of the first rule that matches: serveFile for a file request, else
\* Middleware.Next from the start of a non-empty chain, else serveFile for a
\* directory match, else WriteHeader(404), this one only when no header, no
\* status and no content was written; an exited dispatch makes none.
C15_ServeDecision ==
    [][At(DispatchKinds, "serve") =>
          LET file == request.isFileRequest
              chain == Len(request.handlers) > 0
              dir == request.StaticFile = "dir"
              pushed == Len(stack') = Len(stack) + 1
          IN  /\ request.exited =>
                    /\ ActTaken = ""
                    /\ ~pushed
                    /\ response' = response
                    /\ middleware' = middleware
              /\ (~request.exited /\ file) =>
                    /\ \/ ActTaken = "serveFile"
                       \/ ActTaken = "panic" /\ request.StaticFile = NoFile
                    /\ ~pushed
                    /\ middleware' = middleware
              /\ (~request.exited /\ ~file /\ chain) =>
                    /\ ActTaken = "Next"
                    /\ middleware.handlerIndex = 0
                    /\ middleware.handlerMDIndex = 0
                    /\ middleware' # middleware
                    /\ pushed
                    /\ stack'[Len(stack')].kind = "handler"
                    /\ response' = response
              /\ (~request.exited /\ ~file /\ ~chain /\ dir) =>
                    /\ ActTaken = "serveFile"
                    /\ ~pushed
                    /\ middleware' = middleware
              /\ (~request.exited /\ ~file /\ ~chain /\ ~dir) =>
                    /\ ActTaken \in {"WriteHeader", ""}
                    /\ ~pushed
                    /\ middleware' = middleware
                    /\ ActTaken = "WriteHeader" =>
                          /\ response.Status = 0
                          /\ ~response.buffer
                          /\ response' = WriteHeader(response, StatusNotFound)
                    /\ ActTaken = "" => response' = response]_vars

\* C15's case: a file request with a non-empty handler chain was decided, the
\* file was served and the chain was not run.
C15_Witness ==
    /\ At(DispatchKinds, "afterServe")
    /\ ~request.exited
    /\ request.isFileRequest
    /\ Len(request.handlers) > 0
    /\ Top.act = "serveFile"
    /\ middleware.handlerIndex = 0
    /\ middleware.handlerMDIndex = 0

\* The static match of the running dispatch gives way to the dynamic chain.
DynamicWins == request.StaticFile = "dir" /\ request.hasServeHandler

\* C16: with file serving enabled a dispatch that found a static match and is
\* not exited after BeforeServe serves the file and does not call
\* Middleware.Next, unless the match is a directory and the route has a serve
\* handler: then Middleware.Next runs the chain; a static match with no
\* status set resolves to 200; with file serving disabled there is never a
\* static match and never a file request.
C16_StaticPriority ==
    /\ [](~config.FileServerEnabled =>
             (request.StaticFile = NoFile /\ ~request.isFileRequest))
    /\ []((At(DispatchKinds, "serve") /\ request.StaticFile # NoFile) =>
             (request.isFileRequest <=> ~DynamicWins))
    /\ []((obs.at = "check" /\ obs.StaticFile # NoFile /\ obs.Status = 0
              /\ response.Status \notin HandlerStatuses)
             => response.Status = StatusOK)
    /\ [][(/\ At(DispatchKinds, "serve")
           /\ ~request.exited
           /\ request.StaticFile # NoFile) =>
             IF DynamicWins
             THEN /\ ActTaken = "Next"
                  /\ Len(stack') = Len(stack) + 1
                  /\ stack'[Len(stack')].kind = "handler"
             ELSE /\ ActTaken = "serveFile"
                  /\ Len(stack') = Len(stack)
                  /\ middleware' = middleware]_vars

\* C16's case: a file matched on a route that has a serve handler; the file
\* was served and the chain was not run.
C16_Witness ==
    /\ At(DispatchKinds, "afterServe")
    /\ config.FileServerEnabled
    /\ request.StaticFile = "file"
    /\ request.hasServeHandler
    /\ Top.act = "serveFile"
    /\ ~request.exited

\* C17 as claimed: when the deferred cleanup is over, on every exit path,
\* the cookies were flushed once and the response buffer was flushed once.
C17_FlushedOnEveryPath ==
    Finished => (response.cookieFlushed = 1 /\ response.flushed = 1)

\* A hook handler or a status handler is being called.
CallsHookHandler ==
    At(DispatchKinds \cup {"CServeHTTP"}, "hooks") /\ Top.hk < NumHooks
CallsStatusHandler ==
    At({"CServeHTTP"}, "statusLoop") /\ Top.hk < statusFuncArray.n

C19_DefaultStatus ==
    At({"CServeHTTP"}, "statusHandler") =>
       /\ obs.at = "check"
       /\ IF obs.Status # 0
          THEN response.Status = obs.Status /\ response.buffer = obs.buffer
          ELSE IF obs.StaticFile # NoFile \/ obs.served \/ obs.buffer
          THEN response.Status = StatusOK /\ response.buffer = obs.buffer
          ELSE IF obs.error # NoError
          THEN response.Status = StatusInternalServerError /\ response.buffer
          ELSE response.Status = StatusNotFound /\ ~response.buffer

\* C19's case: an error was recorded and nothing was written or matched; the
\* error text is in the body and the status is 500.
C19_Witness ==
    /\ At({"CServeHTTP"}, "statusHandler")
    /\ obs.Status = 0
    /\ obs.StaticFile = NoFile
    /\ ~obs.served
    /\ ~obs.buffer
    /\ obs.error # NoError
    /\ response.Status = StatusInternalServerError
    /\ response.buffer

\* C20 as claimed: whenever a dispatch that is not exited takes the static
\* file branch of the serve decision, request.StaticFile is not nil, in the
\* first dispatch and in every replay.
C20_FileRequestHasFile ==
    (At(DispatchKinds, "serve") /\ ServeRule(request) = "file")
       => request.StaticFile # NoFile

\* A step that calls HandleContext, and a step that returns from it.
HandleContextCalled ==
    /\ At({"handler"}, "run")
    /\ Len(stack') = Len(stack) + 1
    /\ stack'[Len(stack')].kind = "HandleContext"

HandleContextLeft ==
    /\ At({"HandleContext"}, "return")
    /\ stack' = Pop

\* C21: the call of HandleContext clears the served flag whatever it was,
\* and the return of HandleContext puts the two cursor indexes back and
\* leaves the served flag as the replay left it: the value the flag had
\* before the call is not put back.
C21_ServedNotRestored ==
    [][/\ HandleContextCalled => ~middleware'.served
       /\ HandleContextLeft =>
             /\ middleware'.served = middleware.served
             /\ middleware'.handlerIndex = Top.oldHI
             /\ middleware'.handlerMDIndex = Top.oldMD]_vars

\* C21's case: a handler called HandleContext with the chain marked served,
\* the replay served nothing, HandleContext has returned to the handler and
\* the chain is not marked served.
C21_Witness ==
    /\ At({"handler"}, "run")
    /\ Top.act = "HandleContext"
    /\ Top.oldServed
    /\ ~middleware.served

====
